---- MODULE Spec2Model ----
(***************************************************************************)
(* AIScraper (src/scraper.py): search -> rate-limited fetch -> parse ->     *)
(* extract emails -> analyze -> aggregate -> persist.                       *)
(*                                                                          *)
(* Text is a sequence of one-character strings.  Time is counted in ticks;  *)
(* Interval ticks make the minimum inter-request interval 1/rate_limit.     *)
(***************************************************************************)
EXTENDS Integers, Sequences, FiniteSets, TLC

VARIABLES
    google_api_key,     \* self.google_api_key is set (truthy)
    search_engine_id,   \* self.search_engine_id is set (truthy)
    last_request_time,  \* self.last_request_time
    now,                \* the wall clock, time.time()
    pc,                 \* position of the single thread of control
    entry,              \* the public method that was called
    urls,               \* the URL list being processed
    idx,                \* position of the bulk_scrape loop in urls (1-based)
    content,            \* scrape_website: what get_page_content returned
    results,            \* bulk_scrape: the local list `results`; analyze_with_ai
                        \* called directly: the dict it returned
    df,                 \* the table the run returned
    file,               \* the CSV file at csv_path
    net,                \* every network request issued so far, in order
    writes,             \* number of to_csv calls so far
    first_request_time, \* last_request_time as set by the first page request
    prev_request_time   \* last_request_time as it was before the latest page request

vars == <<google_api_key, search_engine_id, last_request_time, now, pc, entry,
          urls, idx, content, results, df, file, net, writes,
          first_request_time, prev_request_time>>

-----------------------------------------------------------------------------
(* Bounds of the model *)

MaxUrls == 2            \* longest URL list
MaxDelay == 2           \* most ticks that pass between two steps
Interval == 2           \* ticks in 1 / self.rate_limit seconds (resolution of the clock)
Slack == 3              \* page text lengths range over budget - Slack .. budget + Slack

(* Program constants *)

ApiMaxResults == 10             \* search API limit per query
MaxContentChars == 4000         \* content[:4000]

-----------------------------------------------------------------------------
(* Helpers *)

Min(a, b) == IF a < b THEN a ELSE b

Range(s) == {s[i] : i \in 1..Len(s)}

SeqsUpTo(S, n) == UNION {[1..k -> S] : k \in 0..n}

NoDuplicates(s) == \A i, j \in 1..Len(s) : i # j => s[i] # s[j]

\* Python's None, for values that are otherwise atomic strings
None == "None"

-----------------------------------------------------------------------------
(* The environment: URLs, pages, replies *)

Urls == {"u1", "u2"}

E1 == <<"a", "@", "b", ".", "c", "c">>
E2 == <<"b", ".", "c", "@", "a", "-", "b", ".", "c", "c">>

\* <a href="mailto:a@b.cc">x</a>   the address occurs only inside the tag
MailtoBody ==
    <<"<", "a", " ", "h", "r", "e", "f", "=", "\"", "m", "a", "i", "l", "t", "o", ":">>
    \o E1 \o <<"\"", ">", "x", "<", "/", "a", ">">>
\* a@b.cc b.c@a-b.cc,a@b.cc a@b.c   a repeated address and a non-address
DupBody == E1 \o <<" ">> \o E2 \o <<",">> \o E1 \o <<" ", "a", "@", "b", ".", "c">>
\* the empty body of a 2xx response
EmptyBody == <<>>

Bodies == {EmptyBody, MailtoBody, DupBody}

\* What requests.get(...).text / raise_for_status can give: a body, or an exception.
PageResponses == {[ok |-> FALSE, text |-> <<>>]} \cup {[ok |-> TRUE, text |-> b] : b \in Bodies}

Replies == {"r1"}
\* chat.completions.create: a reply, or an exception
AiResponses == {[ok |-> FALSE, text |-> None]} \cup {[ok |-> TRUE, text |-> r] : r \in Replies}

Prompt == <<"p">>

\* The search endpoint: an exception or non-2xx status, a JSON object without
\* "items", or a JSON object with an "items" array of at most num links.
SearchResponses(num) ==
    {[status |-> "error", hasItems |-> FALSE, links |-> <<>>],
     [status |-> "ok", hasItems |-> FALSE, links |-> <<>>]}
    \cup {[status |-> "ok", hasItems |-> TRUE, links |-> l] : l \in SeqsUpTo(Urls, Min(num, MaxUrls))}

-----------------------------------------------------------------------------
(* search_web *)

\* only the API key checked
ApiKeyMissing == ~google_api_key

\* line 38: if not self.google_api_key or not self.search_engine_id
CredentialsMissing == ~google_api_key \/ ~search_engine_id

\* line 46: 'num': min(max_results, 10)
NumParam(max_results) == Min(max_results, ApiMaxResults)

\* a response without items answered with a default link
ItemsLinksDefault(resp) ==
    IF resp.status = "ok" /\ resp.hasItems THEN resp.links ELSE <<"u1">>

\* lines 49-60: the value search_web returns for a response
ItemsLinks(resp) ==
    IF resp.status = "error" THEN <<>>
    ELSE IF ~resp.hasItems THEN <<>>
    ELSE resp.links

\* without the try/except of lines 49 and 58: a transport error propagates
SearchWebRaisesUncaught(resp) == CredentialsMissing \/ resp.status = "error"

\* lines 38-39, 58-60: whether search_web raises
SearchWebRaises(resp) == CredentialsMissing

-----------------------------------------------------------------------------
(* _respect_rate_limit *)

\* no sleep
NoRateLimit(current_time, last) == current_time

\* lines 64-68: the value stored in last_request_time by a call that starts at
\* current_time; time.sleep returns once the requested time has passed.
RespectRateLimit(current_time, last) ==
    LET time_since_last_request == current_time - last IN
    IF time_since_last_request < Interval
    THEN current_time + (Interval - time_since_last_request)
    ELSE current_time

-----------------------------------------------------------------------------
(* get_page_content *)

\* lines 83-89: response.text, or None on any exception
GetPageContent(resp) ==
    IF resp.ok THEN [isNone |-> FALSE, text |-> resp.text]
    ELSE [isNone |-> TRUE, text |-> <<>>]

-----------------------------------------------------------------------------
(* extract_emails *)

Letters ==
    {"a", "b", "c", "d", "e", "f", "g", "h", "i", "j", "k", "l", "m",
     "n", "o", "p", "q", "r", "s", "t", "u", "v", "w", "x", "y", "z",
     "A", "B", "C", "D", "E", "F", "G", "H", "I", "J", "K", "L", "M",
     "N", "O", "P", "Q", "R", "S", "T", "U", "V", "W", "X", "Y", "Z"}
Digits == {"0", "1", "2", "3", "4", "5", "6", "7", "8", "9"}
LocalChars  == Letters \cup Digits \cup {".", "_", "%", "+", "-"}
DomainChars == Letters \cup Digits \cup {".", "-"}

\* the end (exclusive) of the longest run of characters of `class` starting at i
RECURSIVE RunEnd(_, _, _)
RunEnd(text, i, class) ==
    IF i <= Len(text) /\ text[i] \in class THEN RunEnd(text, i + 1, class) ELSE i

\* The end (exclusive) of the match of
\*   [a-zA-Z0-9._%+-]+@[a-zA-Z0-9.-]+\.[a-zA-Z]{2,}
\* that starts at i, or 0 when there is none.  Every quantifier is greedy, and
\* the domain part backtracks to the last "." that two letters follow.
MatchAt(text, i) ==
    LET at == RunEnd(text, i, LocalChars) IN
    IF at = i \/ at > Len(text) \/ text[at] # "@" THEN 0
    ELSE
        LET domEnd == RunEnd(text, at + 1, DomainChars)
            dots == {d \in (at + 2)..(domEnd - 1) :
                        /\ text[d] = "."
                        /\ RunEnd(text, d + 1, Letters) >= d + 3}
        IN  IF dots = {} THEN 0
            ELSE LET d == CHOOSE x \in dots : \A y \in dots : y <= x
                 IN  RunEnd(text, d + 1, Letters)

\* re.findall(email_pattern, text): the non-overlapping matches, left to right
RECURSIVE FindAllFrom(_, _)
FindAllFrom(text, i) ==
    IF i > Len(text) THEN <<>>
    ELSE LET e == MatchAt(text, i) IN
         IF e = 0 THEN FindAllFrom(text, i + 1)
         ELSE <<SubSeq(text, i, e - 1)>> \o FindAllFrom(text, e)

FindAll(text) == FindAllFrom(text, 1)

\* the orders in which list(set(...)) can list the members of S
Orderings(S) == {s \in [1..Cardinality(S) -> S] : Range(s) = S}

\* without the set(): the matches as found
ExtractEmailsNoSet(text) == {FindAll(text)}

\* line 102: list(set(re.findall(email_pattern, text))); the order of a set's
\* members is not fixed, so every order is a possible result.
ExtractEmails(text) == Orderings(Range(FindAll(text)))

-----------------------------------------------------------------------------
(* BeautifulSoup(content, 'html.parser').get_text() on well-formed markup:   *)
(* the text outside the tags.                                               *)

RECURSIVE GetTextFrom(_, _, _)
GetTextFrom(markup, i, inTag) ==
    IF i > Len(markup) THEN <<>>
    ELSE IF inTag THEN GetTextFrom(markup, i + 1, markup[i] # ">")
    ELSE IF markup[i] = "<" THEN GetTextFrom(markup, i + 1, TRUE)
    ELSE <<markup[i]>> \o GetTextFrom(markup, i + 1, FALSE)

GetText(markup) == GetTextFrom(markup, 1, FALSE)

-----------------------------------------------------------------------------
(* analyze_with_ai *)

\* content[:4000] without the slice
NoTruncate(text) == text

\* line 120: content[:4000]
Truncate(text) == SubSeq(text, 1, Min(Len(text), MaxContentChars))

\* "\n\nContent: "
Separator == <<"\n", "\n", "C", "o", "n", "t", "e", "n", "t", ":", " ">>

\* line 120: f"{prompt}\n\nContent: {content[:4000]}"
UserMessage(prompt, text) == prompt \o Separator \o Truncate(text)

\* lines 123-125: the dict analyze_with_ai returns
AnalyzeWithAiResult(resp) ==
    IF resp.ok THEN [success |-> TRUE, analysis |-> resp.text]
    ELSE [success |-> FALSE, analysis |-> None]

\* lines 116-122: the one request analyze_with_ai issues
AnalysisRequest(i, prompt, text, resp) ==
    [kind |-> "analysis", i |-> i, ok |-> resp.ok,
     data |-> UserMessage(prompt, text), reply |-> resp.text]

-----------------------------------------------------------------------------
(* scrape_website *)

\* the check at line 139 left out
FetchNeverFails(c) == FALSE

\* line 139: if not content   (None and the empty string are both falsy)
FetchFailed(c) == c.isNone \/ c.text = <<>>

\* line 140
FailureResult == [success |-> FALSE, error |-> "Failed to fetch content"]

\* lines 148-153
SuccessResult(url, emails, ai_analysis) ==
    [success |-> TRUE, url |-> url, emails |-> emails,
     ai_analysis |-> IF ai_analysis.success THEN ai_analysis.analysis ELSE None]

-----------------------------------------------------------------------------
(* bulk_scrape *)

\* every result appended
KeepAll(result) == TRUE

\* line 190: if result["success"]
Keep(result) == result.success

\* pandas: the header line of DataFrame(results).to_csv(index=False); a frame
\* built from no rows has no columns
CsvHeader == <<"success", "url", "emails", "ai_analysis">>

\* pandas: one line of the CSV; None is written as the empty field
CsvRow(r) ==
    <<"True", r.url, r.emails, IF r.ai_analysis = None THEN "" ELSE r.ai_analysis>>

\* line 199: df.to_csv(csv_path, index=False)
ToCsv(rows) ==
    IF rows = <<>> THEN <<>>
    ELSE <<CsvHeader>> \o [k \in 1..Len(rows) |-> CsvRow(rows[k])]

NoFile == [exists |-> FALSE, lines |-> <<>>]

\* a file left at csv_path by an earlier run
StaleFile == [exists |-> TRUE,
              lines |-> <<CsvHeader, <<"True", "u0", <<>>, "old">>>>]

-----------------------------------------------------------------------------
(* State after AIScraper() *)

Init ==
    /\ google_api_key \in BOOLEAN
    /\ search_engine_id \in BOOLEAN
    /\ last_request_time = 0
    /\ now = 2 * Interval           \* time.time() is far beyond one interval
    /\ pc = "idle"
    /\ entry = "none"
    /\ urls = <<>>
    /\ idx = 0
    /\ content = [isNone |-> TRUE, text |-> <<>>]
    /\ results = <<>>
    /\ df = <<>>
    /\ file \in {NoFile, StaleFile}
    /\ net = <<>>
    /\ writes = 0
    /\ first_request_time = 0
    /\ prev_request_time = 0

PageRequests == SelectSeq(net, LAMBDA e : e.kind = "page")
AnalysisRequests == SelectSeq(net, LAMBDA e : e.kind = "analysis")
SearchRequests == SelectSeq(net, LAMBDA e : e.kind = "search")

-----------------------------------------------------------------------------
(* search_and_analyze, up to the first page fetch: lines 168-174, with        *)
(* search_web (lines 38-60) and the head of bulk_scrape (line 187)          *)

SearchAndAnalyze ==
    /\ pc = "idle"
    /\ entry' = "search_and_analyze"
    /\ \E max_results \in 1..MaxUrls :
       \E resp \in SearchResponses(NumParam(max_results)) :
          IF SearchWebRaises(resp)
          THEN /\ pc' = "raised"
               /\ net' = IF CredentialsMissing THEN net
                         ELSE Append(net, [kind |-> "search", i |-> 0, ok |-> FALSE,
                                           data |-> <<>>, reply |-> resp.status])
               /\ UNCHANGED <<urls, idx, results, df>>
          ELSE /\ net' = Append(net, [kind |-> "search", i |-> 0,
                                      ok |-> resp.status = "ok" /\ resp.hasItems,
                                      data |-> resp.links, reply |-> resp.status])
               /\ urls' = ItemsLinks(resp)
               /\ IF urls' = <<>>
                  THEN /\ df' = <<>>
                       /\ pc' = "done"
                       /\ UNCHANGED <<idx, results>>
                  ELSE /\ results' = <<>>
                       /\ idx' = 1
                       /\ pc' = "bulk"
                       /\ UNCHANGED df
    /\ UNCHANGED <<google_api_key, search_engine_id, last_request_time, now,
                   content, file, writes, first_request_time, prev_request_time>>

(* bulk_scrape called directly: line 187 *)
BulkScrape ==
    /\ pc = "idle"
    /\ entry' = "bulk_scrape"
    /\ \E list \in SeqsUpTo(Urls, MaxUrls) : urls' = list
    /\ results' = <<>>
    /\ idx' = 1
    /\ pc' = "bulk"
    /\ UNCHANGED <<google_api_key, search_engine_id, last_request_time, now,
                   content, df, file, net, writes, first_request_time,
                   prev_request_time>>

(* One iteration of the loop, first half: scrape_website lines 138-140 with   *)
(* get_page_content (lines 80-89) and _respect_rate_limit (lines 62-68);    *)
(* d ticks have passed since the previous step.                             *)
Fetch ==
    /\ pc = "bulk"
    /\ idx <= Len(urls)
    /\ \E d \in 0..MaxDelay, resp \in PageResponses :
          /\ last_request_time' = RespectRateLimit(now + d, last_request_time)
          /\ now' = last_request_time'
          /\ prev_request_time' = last_request_time
          /\ first_request_time' = IF PageRequests = <<>> THEN last_request_time'
                                   ELSE first_request_time
          /\ net' = Append(net, [kind |-> "page", i |-> idx, ok |-> resp.ok,
                                 data |-> resp.text, reply |-> None])
          /\ content' = GetPageContent(resp)
          /\ IF FetchFailed(content')
             THEN /\ results' = IF Keep(FailureResult) THEN Append(results, FailureResult)
                                ELSE results
                  /\ idx' = idx + 1
                  /\ pc' = "bulk"
             ELSE /\ pc' = "scrape"
                  /\ UNCHANGED <<idx, results>>
    /\ UNCHANGED <<google_api_key, search_engine_id, entry, urls, df, file, writes>>

(* One iteration of the loop, second half: scrape_website lines 142-153 with  *)
(* extract_emails and analyze_with_ai, and bulk_scrape lines 190-191        *)
Analyze ==
    /\ pc = "scrape"
    /\ \E emails \in ExtractEmails(content.text), resp \in AiResponses :
          LET text_content == GetText(content.text)
              ai_analysis == AnalyzeWithAiResult(resp)
              result == SuccessResult(urls[idx], emails, ai_analysis)
          IN  /\ net' = Append(net, AnalysisRequest(idx, Prompt, text_content, resp))
              /\ results' = IF Keep(result) THEN Append(results, result) ELSE results
    /\ idx' = idx + 1
    /\ pc' = "bulk"
    /\ UNCHANGED <<google_api_key, search_engine_id, last_request_time, now, entry,
                   urls, content, df, file, writes, first_request_time,
                   prev_request_time>>

\* the to_csv call left out
BulkScrapeFinishNoWrite ==
    /\ pc = "bulk"
    /\ idx > Len(urls)
    /\ df' = results
    /\ pc' = "done"
    /\ UNCHANGED <<google_api_key, search_engine_id, last_request_time, now, entry,
                   urls, idx, content, results, file, writes, net,
                   first_request_time, prev_request_time>>

(* After the loop: lines 193-201 *)
BulkScrapeFinish ==
    /\ pc = "bulk"
    /\ idx > Len(urls)
    /\ df' = results
    /\ file' = [exists |-> TRUE, lines |-> ToCsv(df')]
    /\ writes' = writes + 1
    /\ pc' = "done"
    /\ UNCHANGED <<google_api_key, search_engine_id, last_request_time, now, entry,
                   urls, idx, content, results, net, first_request_time,
                   prev_request_time>>

Next == SearchAndAnalyze \/ BulkScrape \/ Fetch \/ Analyze \/ BulkScrapeFinish

Spec == Init /\ [][Next]_vars

-----------------------------------------------------------------------------
(* analyze_with_ai called directly, on page text of a length near the budget *)

Fill == {"a", "b", "c", "x"}

\* a text of n characters in which neighbours differ
TextOf(n, c) == [k \in 1..n |-> IF k % 2 = 0 THEN c ELSE "."]

Lengths == (0..Slack) \cup ((MaxContentChars - Slack)..(MaxContentChars + Slack))

InitAnalyze ==
    /\ google_api_key = TRUE
    /\ search_engine_id = TRUE
    /\ last_request_time = 0
    /\ now = 2 * Interval
    /\ pc = "idle"
    /\ entry = "none"
    /\ urls = <<>>
    /\ idx = 0
    /\ \E n \in Lengths, c \in Fill : content = [isNone |-> FALSE, text |-> TextOf(n, c)]
    /\ results = <<>>
    /\ df = <<>>
    /\ file = NoFile
    /\ net = <<>>
    /\ writes = 0
    /\ first_request_time = 0
    /\ prev_request_time = 0

(* analyze_with_ai(content, prompt): lines 115-125 *)
AnalyzeWithAi ==
    /\ pc = "idle"
    /\ entry' = "analyze_with_ai"
    /\ \E resp \in AiResponses :
          /\ net' = Append(net, AnalysisRequest(0, Prompt, content.text, resp))
          /\ results' = <<AnalyzeWithAiResult(resp)>>
    /\ pc' = "done"
    /\ UNCHANGED <<google_api_key, search_engine_id, last_request_time, now, urls,
                   idx, content, df, file, writes, first_request_time,
                   prev_request_time>>

NextAnalyze == AnalyzeWithAi

SpecAnalyze == InitAnalyze /\ [][NextAnalyze]_vars

-----------------------------------------------------------------------------
(* Properties *)

BulkRan == entry = "bulk_scrape" \/ (entry = "search_and_analyze" /\ urls # <<>>)
BulkDone == BulkRan /\ pc = "done"

\* the request of kind `kind` issued for position i of urls, if any
RequestsFor(kind, i) == {q \in 1..Len(net) : net[q].kind = kind /\ net[q].i = i}
PageFor(i) == net[CHOOSE q \in RequestsFor("page", i) : TRUE]

OkPages == SelectSeq(PageRequests, LAMBDA e : e.ok)

\* C1: when bulk_scrape returns, every URL was fetched, in order, and the rows of
\* the table are exactly the URLs whose page fetch succeeded, in input order.
C1_RowsAreFetchedUrls ==
    BulkDone =>
        /\ Len(PageRequests) = Len(urls)
        /\ \A k \in 1..Len(urls) : PageRequests[k].i = k
        /\ Len(df) = Len(OkPages)
        /\ \A k \in 1..Len(df) : df[k].url = urls[OkPages[k].i]

\* C2: when the search call yields zero items, search_and_analyze returns an
\* empty table, and no page fetch and no analysis request is ever issued.
C2_ZeroItemsShortCircuit ==
    (/\ entry = "search_and_analyze"
     /\ SearchRequests # <<>>
     /\ (~SearchRequests[1].ok \/ SearchRequests[1].data = <<>>))
    => /\ pc = "done"
       /\ df = <<>>
       /\ PageRequests = <<>>
       /\ AnalysisRequests = <<>>

C2_Witness ==
    /\ entry = "search_and_analyze"
    /\ pc = "done"
    /\ Len(SearchRequests) = 1
    /\ SearchRequests[1].reply = "ok"
    /\ ~SearchRequests[1].ok

\* C3: consecutive page requests are issued at least Interval apart, whether or
\* not the earlier fetch succeeded, so N sequential fetches take at least
\* (N-1) * Interval from the first request to the last.
C3_RateLimit ==
    /\ Len(PageRequests) >= 2 => last_request_time - prev_request_time >= Interval
    /\ Len(PageRequests) >= 1 =>
          /\ now = last_request_time
          /\ last_request_time - first_request_time >= (Len(PageRequests) - 1) * Interval

C3_Witness ==
    /\ Len(PageRequests) = 2
    /\ ~PageRequests[1].ok
    /\ PageRequests[2].ok
    /\ last_request_time - first_request_time = Interval
    /\ last_request_time - prev_request_time = Interval

\* C4: search_and_analyze with the API key or the search-engine id missing
\* raises before any network request is issued, and writes nothing.
C4_MissingCredentialsAbort ==
    (entry = "search_and_analyze" /\ (~google_api_key \/ ~search_engine_id))
    => /\ pc = "raised"
       /\ net = <<>>
       /\ writes = 0
       /\ file \in {NoFile, StaleFile}
       /\ df = <<>>

C4_Witness ==
    /\ entry = "search_and_analyze"
    /\ google_api_key
    /\ ~search_engine_id
    /\ pc = "raised"
    /\ file = StaleFile

\* C5 as stated: search_web never raises.
C5_NeverRaises == pc # "raised"

\* C5 amended: search_web raises exactly when a credential is missing, before
\* any request; with both credentials present it never raises, and a transport
\* or HTTP error makes it return the empty sequence.
C5_RaisesOnlyOnMissingCredentials ==
    /\ pc = "raised" <=> (entry = "search_and_analyze" /\ CredentialsMissing)
    /\ pc = "raised" => net = <<>>
    /\ \A q \in 1..Len(net) :
          (net[q].kind = "search" /\ net[q].reply = "error")
          => (urls = <<>> /\ pc = "done" /\ df = <<>>)

C5_Witness ==
    /\ pc = "done"
    /\ Len(net) = 1
    /\ net[1].kind = "search"
    /\ net[1].reply = "error"
    /\ urls = <<>>

\* C6: per URL at most one page request and at most one analysis request, the
\* analysis only after that URL's successful fetch; a failed analysis is not
\* retried, leaves that row's analysis absent, and the loop goes on to the end.
C6_OneAnalysisAfterFetch ==
    /\ \A i \in 1..Len(urls) :
          /\ Cardinality(RequestsFor("page", i)) <= 1
          /\ Cardinality(RequestsFor("analysis", i)) <= 1
          /\ \A a \in RequestsFor("analysis", i) :
                \E q \in RequestsFor("page", i) : q < a /\ net[q].ok
    /\ \A q \in 1..Len(net) : net[q].kind \in {"page", "analysis"} => net[q].i \in 1..Len(urls)
    /\ Len(results) = Len(AnalysisRequests)
    /\ \A k \in 1..Len(results) :
          ~AnalysisRequests[k].ok => results[k].ai_analysis = None
    /\ pc # "raised" \/ PageRequests = <<>>
    /\ BulkDone => Len(PageRequests) = Len(urls)

C6_Witness ==
    /\ BulkDone
    /\ Len(urls) = 2
    /\ Len(AnalysisRequests) = 2
    /\ ~AnalysisRequests[1].ok
    /\ AnalysisRequests[2].ok
    /\ Len(df) = 2

\* C7 as stated: every row belongs to a URL whose analysis request succeeded.
C7_RowsAreAnalyzed ==
    /\ Len(results) = Len(AnalysisRequests)
    /\ \A k \in 1..Len(results) : AnalysisRequests[k].ok

\* C7 amended: every row of the table returned and persisted belongs to a URL
\* whose page fetch succeeded (its analysis is absent when the analysis request
\* failed), and every URL whose fetch and analysis both succeeded has exactly
\* one row.
C7_RowsAreFetched ==
    /\ Len(results) = Len(AnalysisRequests)
    /\ \A k \in 1..Len(results) :
          LET i == AnalysisRequests[k].i IN
          /\ results[k].success
          /\ results[k].url = urls[i]
          /\ PageFor(i).ok
          /\ \A j \in 1..Len(results) : AnalysisRequests[j].i = i => j = k
    /\ \A i \in 1..Len(urls) :
          (\E a \in RequestsFor("analysis", i) : net[a].ok)
          => Cardinality({k \in 1..Len(results) : AnalysisRequests[k].i = i}) = 1
    /\ BulkDone =>
          /\ df = results
          /\ file.exists
          /\ Len(file.lines) = IF df = <<>> THEN 0 ELSE Len(df) + 1
          /\ \A k \in 1..Len(df) : file.lines[k + 1][2] = df[k].url

C7_Witness ==
    /\ BulkDone
    /\ Len(df) = 2
    /\ AnalysisRequests[1].ok
    /\ ~AnalysisRequests[2].ok
    /\ df[2].ai_analysis = None

\* the part of a user message after the prompt and the separator
ContentPart(message, prompt) ==
    SubSeq(message, Len(prompt) + Len(Separator) + 1, Len(message))

\* C8: the page text in the analysis request is the first MaxContentChars
\* characters of the text: never longer than the budget, and the whole text
\* when the text fits.
C8_Truncation ==
    (entry = "analyze_with_ai" /\ pc = "done") =>
        LET message == net[Len(net)].data
            sent == ContentPart(message, Prompt)
            text == content.text
        IN  /\ Len(net) = 1
            /\ SubSeq(message, 1, Len(Prompt) + Len(Separator)) = Prompt \o Separator
            /\ Len(sent) <= MaxContentChars
            /\ Len(text) <= MaxContentChars => sent = text
            /\ Len(text) > MaxContentChars =>
                  /\ Len(sent) = MaxContentChars
                  /\ \A k \in 1..MaxContentChars : sent[k] = text[k]

C8_Witness ==
    /\ entry = "analyze_with_ai"
    /\ pc = "done"
    /\ Len(content.text) > MaxContentChars
    /\ Len(ContentPart(net[1].data, Prompt)) = MaxContentChars
    /\ results[1].success

\* C9: a URL whose fetch and analysis both succeed has exactly one row, with
\* that url, the model's reply verbatim, and as emails the distinct matches of
\* the pattern in the raw body, none twice; an address that occurs only inside
\* a tag of the body is among them.
C9_RowContent ==
    /\ Len(results) = Len(AnalysisRequests)
    /\ \A k \in 1..Len(results) :
          LET a == AnalysisRequests[k]
              body == PageFor(a.i).data
              row == results[k]
          IN  a.ok =>
                /\ row.url = urls[a.i]
                /\ row.ai_analysis = a.reply
                /\ a.reply \in Replies
                /\ NoDuplicates(row.emails)
                /\ Range(row.emails) = Range(FindAll(body))
                /\ body = MailtoBody => row.emails = <<E1>>
                /\ body = DupBody => Range(row.emails) = {E1, E2}
                /\ \A j \in 1..Len(results) : AnalysisRequests[j].i = a.i => j = k

C9_Witness ==
    /\ BulkDone
    /\ Len(df) = 2
    /\ AnalysisRequests[1].ok
    /\ AnalysisRequests[2].ok
    /\ PageFor(AnalysisRequests[1].i).data = MailtoBody
    /\ FindAll(GetText(MailtoBody)) = <<>>
    /\ df[1].emails = <<E1>>
    /\ PageFor(AnalysisRequests[2].i).data = DupBody
    /\ df[2].emails = <<E2, E1>>

\* C10: a bulk run writes the file exactly once, after the last URL was
\* processed and not before, with exactly the rows of the returned table in
\* place of whatever the file held, also when URLs failed.
C10_WriteOnceAtEnd ==
    /\ [](BulkDone =>
            /\ writes = 1
            /\ file.exists
            /\ Len(file.lines) = (IF df = <<>> THEN 0 ELSE Len(df) + 1)
            /\ \A k \in 1..Len(df) :
                  /\ file.lines[k + 1][2] = df[k].url
                  /\ file.lines[k + 1][3] = df[k].emails
                  /\ file.lines[k + 1][4] =
                        (IF df[k].ai_analysis = None THEN "" ELSE df[k].ai_analysis))
    /\ [](pc # "done" => writes = 0)
    /\ [][(file' # file \/ writes' # writes) =>
            /\ pc = "bulk"
            /\ Len(PageRequests) = Len(urls)
            /\ idx > Len(urls)
            /\ pc' = "done"
            /\ writes' = writes + 1
            /\ df' = results]_vars

C10_Witness ==
    /\ BulkDone
    /\ Len(urls) = 2
    /\ ~PageRequests[1].ok
    /\ ~PageRequests[2].ok
    /\ df = <<>>
    /\ writes = 1
    /\ file = [exists |-> TRUE, lines |-> <<>>]

====
